---- MODULE Spec2Model ----
(***************************************************************************)
(* redteamoracle: the oracle gate and its persisted 24-hour lockout.       *)
(*                                                                         *)
(* Time is counted in whole hours.  A datetime is a natural number of      *)
(* hours; its ISO text is the character sequence  d d T h h  (two digits   *)
(* of day, the letter T, two digits of hour).  A random sample of [0,1)    *)
(* is counted in hundredths.  The state file is modelled by its parsed     *)
(* content together with a flag, edited, telling that its bytes are not    *)
(* the ones json.dumps(indent=2) produces for that content.                *)
(***************************************************************************)
EXTENDS Integers, Sequences, FiniteSets, TLC

VARIABLES file, dir, clock, last, scen, conf, built, hist, race

vars == <<file, dir, clock, last, scen, conf, built, hist, race>>

----------------------------------------------------------------------------
(* Bounds of the model *)

MaxClock == 60

(* Program constants *)

DOOM_PROBABILITY == 42

LOCKOUT_HOURS == 24

----------------------------------------------------------------------------
(* Inputs *)

\* hours that pass between two commands
Elapsed == {12, 24}

\* hours that pass while the provider is asked
AskDelay == {0, 12}

\* random.random() in hundredths
Samples == {0, 41, 42, 99}

\* behaviours of ai_provider.ask
Providers == {"answer1", "answer2", "raises"}

\* storage faults striking one command: none, mkdir refused, read refused,
\* open-for-write refused, write interrupted after truncation
IOFaults == {"none", "mkdir", "read", "open_w", "write"}

None == -1

----------------------------------------------------------------------------
(* datetime.isoformat / datetime.fromisoformat *)

Digits == <<"0", "1", "2", "3", "4", "5", "6", "7", "8", "9">>

DigitChars == {Digits[i] : i \in 1..10}

DigitOf == [c \in DigitChars |-> (CHOOSE i \in 1..10 : Digits[i] = c) - 1]

DigitVal(c) == DigitOf[c]

TwoDigits(n) == <<Digits[(n \div 10) + 1], Digits[(n % 10) + 1]>>

\* the date alone, the hour dropped
isoformat_date(t) == TwoDigits(t \div 24) \o <<"T", "0", "0">>

isoformat(t) == TwoDigits(t \div 24) \o <<"T">> \o TwoDigits(t % 24)

IsIso(s) ==
    /\ Len(s) = 5
    /\ s[3] = "T"
    /\ \A i \in {1, 2, 4, 5} : s[i] \in DigitChars
    /\ DigitVal(s[4]) * 10 + DigitVal(s[5]) < 24

fromisoformat(s) ==
    (DigitVal(s[1]) * 10 + DigitVal(s[2])) * 24 + DigitVal(s[4]) * 10 + DigitVal(s[5])

----------------------------------------------------------------------------
(* JSON values and the state file *)

EmptyDict == [k \in {} |-> <<>>]

DictDel(d, key) == [k \in DOMAIN d \ {key} |-> d[k]]

\* the record is replaced by one holding only the new key
DictSet_fresh(d, key, v) == [k \in {key} |-> v]

DictSet(d, key, v) == [k \in DOMAIN d \cup {key} |-> IF k = key THEN v ELSE d[k]]

\* a parsed JSON value: an object, a non-object container (list, string),
\* or a scalar (number, null, boolean)
JObject(d) == [kind |-> "object", obj |-> d]

NoFile == [kind |-> "absent", obj |-> EmptyDict, edited |-> FALSE]

\* the file json.dumps(state, indent=2) writes
Dumped(d) == [kind |-> "object", obj |-> d, edited |-> FALSE]

\* what is left of the file when write_text is interrupted after truncation
Truncated == [kind |-> "garbage", obj |-> EmptyDict, edited |-> TRUE]

World(f, d) == [file |-> f, dir |-> d]

----------------------------------------------------------------------------------------------------------------------------------------
(* Persisted lockout state (oracle.py).  Every operation takes the world   *)
(* w = [file, dir] and the storage fault io of the running command, and    *)
(* returns the world it leaves, whether it raised, its value, the number   *)
(* of write_text calls it made and whether the fault struck.               *)

mkdir_raises(w, io) == ~w.dir /\ io = "mkdir"

Loaded(w, exc, val, hit) == [w |-> w, exc |-> exc, val |-> val, hit |-> hit]

\* a missing state file is created on load
load_state_creates(w, io) ==
    IF mkdir_raises(w, io)
    THEN Loaded(w, TRUE, JObject(EmptyDict), TRUE)
    ELSE IF w.file.kind = "absent"
    THEN Loaded(World(Dumped(EmptyDict), TRUE), FALSE, JObject(EmptyDict), FALSE)
    ELSE IF io = "read" \/ w.file.kind = "garbage"
    THEN Loaded(World(w.file, TRUE), FALSE, JObject(EmptyDict), io = "read")
    ELSE Loaded(World(w.file, TRUE), FALSE,
                [kind |-> w.file.kind, obj |-> w.file.obj], FALSE)

load_state(w, io) ==
    IF mkdir_raises(w, io)
    THEN Loaded(w, TRUE, JObject(EmptyDict), TRUE)
    ELSE IF w.file.kind = "absent"
    THEN Loaded(World(w.file, TRUE), FALSE, JObject(EmptyDict), FALSE)
    ELSE IF io = "read" \/ w.file.kind = "garbage"
    THEN Loaded(World(w.file, TRUE), FALSE, JObject(EmptyDict), io = "read")
    ELSE Loaded(World(w.file, TRUE), FALSE,
                [kind |-> w.file.kind, obj |-> w.file.obj], FALSE)

Done(w, exc, val, writes, hit) ==
    [w |-> w, exc |-> exc, val |-> val, writes |-> writes, hit |-> hit]

\* a failed write is swallowed instead of raised
save_state_swallow(w, d, io) ==
    IF mkdir_raises(w, io)
    THEN Done(w, FALSE, None, 0, TRUE)
    ELSE IF io = "open_w"
    THEN Done(World(w.file, TRUE), FALSE, None, 1, TRUE)
    ELSE IF io = "write"
    THEN Done(World(Truncated, TRUE), FALSE, None, 1, TRUE)
    ELSE Done(World(Dumped(d), TRUE), FALSE, None, 1, FALSE)

save_state(w, d, io) ==
    IF mkdir_raises(w, io)
    THEN Done(w, TRUE, None, 0, TRUE)
    ELSE IF io = "open_w"
    THEN Done(World(w.file, TRUE), TRUE, None, 1, TRUE)
    ELSE IF io = "write"
    THEN Done(World(Truncated, TRUE), TRUE, None, 1, TRUE)
    ELSE Done(World(Dumped(d), TRUE), FALSE, None, 1, FALSE)

\* a lockout that never ends
Expired_never(now, locked_until) == FALSE

\* a lockout still counted as active at the instant it ends
Expired_le(now, locked_until) == ~(now <= locked_until)

\* the comparison turned round
Expired_rev(now, locked_until) == ~(locked_until < now)

\* the comparison left out
Expired_always(now, locked_until) == TRUE

Expired(now, locked_until) == ~(now < locked_until)

\* the key is removed and the record saved whether or not it has expired
is_locked_out_wipe(w, now, io) ==
    LET l == load_state(w, io) IN
    IF l.exc \/ l.val.kind = "scalar"
    THEN Done(l.w, TRUE, None, 0, l.hit)
    ELSE IF l.val.kind # "object" \/ "locked_until" \notin DOMAIN l.val.obj
    THEN Done(l.w, FALSE, None, 0, l.hit)
    ELSE IF ~IsIso(l.val.obj["locked_until"])
    THEN Done(l.w, TRUE, None, 0, l.hit)
    ELSE LET s == save_state(l.w, DictDel(l.val.obj, "locked_until"), io) IN
         Done(s.w, s.exc, None, s.writes, l.hit \/ s.hit)

\* the expired key is dropped in memory but the record is not saved
is_locked_out_nosave(w, now, io) ==
    LET l == load_state(w, io) IN
    IF l.exc \/ l.val.kind = "scalar"
    THEN Done(l.w, TRUE, None, 0, l.hit)
    ELSE IF l.val.kind # "object" \/ "locked_until" \notin DOMAIN l.val.obj
    THEN Done(l.w, FALSE, None, 0, l.hit)
    ELSE IF ~IsIso(l.val.obj["locked_until"])
    THEN Done(l.w, TRUE, None, 0, l.hit)
    ELSE LET locked_until == fromisoformat(l.val.obj["locked_until"]) IN
         IF ~Expired(now, locked_until)
         THEN Done(l.w, FALSE, locked_until, 0, l.hit)
         ELSE Done(l.w, FALSE, None, 0, l.hit)

is_locked_out(w, now, io) ==
    LET l == load_state(w, io) IN
    IF l.exc \/ l.val.kind = "scalar"
    THEN Done(l.w, TRUE, None, 0, l.hit)
    ELSE IF l.val.kind # "object" \/ "locked_until" \notin DOMAIN l.val.obj
    THEN Done(l.w, FALSE, None, 0, l.hit)
    ELSE IF ~IsIso(l.val.obj["locked_until"])
    THEN Done(l.w, TRUE, None, 0, l.hit)
    ELSE LET locked_until == fromisoformat(l.val.obj["locked_until"]) IN
         IF ~Expired(now, locked_until)
         THEN Done(l.w, FALSE, locked_until, 0, l.hit)
         ELSE LET s == save_state(l.w, DictDel(l.val.obj, "locked_until"), io) IN
              Done(s.w, s.exc, None, s.writes, l.hit \/ s.hit)

\* the lockout lasts twice as long
set_lockout_late(w, now, io) ==
    LET l == load_state(w, io) IN
    IF l.exc \/ l.val.kind # "object"
    THEN Done(l.w, TRUE, None, 0, l.hit)
    ELSE LET locked_until == now + 2 * LOCKOUT_HOURS
             s == save_state(l.w,
                     DictSet(l.val.obj, "locked_until", isoformat(locked_until)), io)
         IN  Done(s.w, s.exc, IF s.exc THEN None ELSE locked_until, s.writes,
                  l.hit \/ s.hit)

\* the record is updated in memory but never saved
set_lockout_nosave(w, now, io) ==
    LET l == load_state(w, io) IN
    IF l.exc \/ l.val.kind # "object"
    THEN Done(l.w, TRUE, None, 0, l.hit)
    ELSE Done(l.w, FALSE, now + LOCKOUT_HOURS, 0, l.hit)

set_lockout(w, now, io) ==
    LET l == load_state(w, io) IN
    IF l.exc \/ l.val.kind # "object"
    THEN Done(l.w, TRUE, None, 0, l.hit)
    ELSE LET locked_until == now + LOCKOUT_HOURS
             s == save_state(l.w,
                     DictSet(l.val.obj, "locked_until", isoformat(locked_until)), io)
         IN  Done(s.w, s.exc, IF s.exc THEN None ELSE locked_until, s.writes,
                  l.hit \/ s.hit)

\* the key is popped in memory but the record is not saved
clear_lockout_nosave(w, io) ==
    LET l == load_state(w, io) IN
    IF l.exc \/ l.val.kind # "object"
    THEN Done(l.w, TRUE, None, 0, l.hit)
    ELSE Done(l.w, FALSE, None, 0, l.hit)

clear_lockout(w, io) ==
    LET l == load_state(w, io) IN
    IF l.exc \/ l.val.kind # "object"
    THEN Done(l.w, TRUE, None, 0, l.hit)
    ELSE LET s == save_state(l.w, DictDel(l.val.obj, "locked_until"), io) IN
         Done(s.w, s.exc, None, s.writes, l.hit \/ s.hit)

\* another threshold
roll_dice_half(sample) == sample < 50

\* the threshold itself counted as doom
roll_dice_le(sample) == sample <= DOOM_PROBABILITY

roll_dice(sample) == sample < DOOM_PROBABILITY

----------------------------------------------------------------------------
(* The oracle gate (oracle.py, consult_oracle).  now is the clock read by  *)
(* the lockout check, delay the hours the provider call takes.             *)

Gate(w, ret, path, sample, asks, prov, answer, writes, lu, tEnd, hit) ==
    [w |-> w, ret |-> ret, path |-> path, sample |-> sample, asks |-> asks,
     prov |-> prov, answer |-> answer, writes |-> writes, lu |-> lu,
     tEnd |-> tEnd, hit |-> hit]

NoGate(w, now) ==
    Gate(w, "none", "none", None, 0, "none", "none", 0, None, now, FALSE)

\* ai_provider.ask(question): an answer, or an exception
provider_ask(prov) == [exc |-> prov = "raises", text |-> prov]

\* no handler around the call: the exception leaves consult_oracle
try_ask_propagate(prov) ==
    LET a == provider_ask(prov) IN
    [exc |-> a.exc, answer |-> IF a.exc THEN "none" ELSE a.text]

\* try: answer = ask(question)  except Exception as e: answer = placeholder
try_ask(prov) ==
    LET a == provider_ask(prov) IN
    [exc |-> FALSE, answer |-> IF a.exc THEN "placeholder" ELSE a.text]

\* the lockout installed inside the try block: skipped when ask raises
doom_path_skip(c, now, sample, prov, io) ==
    LET a == provider_ask(prov) IN
    IF a.exc
    THEN Gate(c.w, "deny", "FAIL", sample, 1, prov, "placeholder", c.writes, None,
              now, c.hit)
    ELSE LET s == set_lockout(c.w, now, io) IN
         Gate(s.w, IF s.exc THEN "raise" ELSE "deny", "FAIL", sample, 1, prov,
              a.text, c.writes + s.writes, s.val, now, c.hit \/ s.hit)

\* the doom path: ask the provider, then lock out.  c is the outcome of the
\* lockout check, now the clock when the provider has returned
doom_path(c, now, sample, prov, io) ==
    LET a == try_ask(prov) IN
    IF a.exc
    THEN Gate(c.w, "raise", "FAIL", sample, 1, prov, a.answer, c.writes, None,
              now, c.hit)
    ELSE LET s == set_lockout(c.w, now, io) IN
         Gate(s.w, IF s.exc THEN "raise" ELSE "deny", "FAIL", sample, 1, prov,
              a.answer, c.writes + s.writes, s.val, now, c.hit \/ s.hit)

consult_oracle(w, now, delay, sample, prov, io) ==
    LET c == is_locked_out(w, now, io) IN
    IF c.exc
    THEN Gate(c.w, "raise", "CHECKING_LOCKOUT", None, 0, "none", "none",
              c.writes, None, now, c.hit)
    ELSE IF c.val # None
    THEN Gate(c.w, "deny", "LOCKED", None, 0, "none", "none", c.writes, c.val,
              now, c.hit)
    ELSE IF ~roll_dice(sample)
    THEN Gate(c.w, "allow", "PASS", sample, 0, "none", "none", c.writes, None,
              now, c.hit)
    ELSE doom_path(c, now + delay, sample, prov, io)

----------------------------------------------------------------------------------------------------------------------------------------
(* Answer providers and their factory (ai/__init__.py) and the provider    *)
(* resolution of the command line (cli.py).  Strings are sequences of      *)
(* characters; an optional string is None or a string.                     *)

Str(v) == [some |-> TRUE, v |-> v]

NoStr == [some |-> FALSE, v |-> <<>>]

\* Python truth of an optional string: neither None nor empty
Truthy(o) == o.some /\ o.v # <<>>

Uppers ==
    <<"A", "B", "C", "D", "E", "F", "G", "H", "I", "J", "K", "L", "M", "N",
    "O", "P", "Q", "R", "S", "T", "U", "V", "W", "X", "Y", "Z">>

Lowers ==
    <<"a", "b", "c", "d", "e", "f", "g", "h", "i", "j", "k", "l", "m", "n",
    "o", "p", "q", "r", "s", "t", "u", "v", "w", "x", "y", "z">>

\* lower() left out
lower_same(s) == s

\* str.lower()
lower(s) ==
    [i \in 1..Len(s) |->
        IF \E j \in 1..26 : Uppers[j] = s[i]
        THEN Lowers[CHOOSE j \in 1..26 : Uppers[j] = s[i]]
        ELSE s[i]]

RECURSIVE rstrip(_)
\* str.rstrip("/")
rstrip(s) ==
    IF s # <<>> /\ s[Len(s)] = "/" THEN rstrip(SubSeq(s, 1, Len(s) - 1)) ELSE s

K_ollama == <<"o", "l", "l", "a", "m", "a">>

K_lmstudio == <<"l", "m", "s", "t", "u", "d", "i", "o">>

K_lm_studio == <<"l", "m", "_", "s", "t", "u", "d", "i", "o">>

K_lm_dash == <<"l", "m", "-", "s", "t", "u", "d", "i", "o">>

K_openai == <<"o", "p", "e", "n", "a", "i">>

K_chatgpt == <<"c", "h", "a", "t", "g", "p", "t">>

K_claude == <<"c", "l", "a", "u", "d", "e">>

K_anthropic == <<"a", "n", "t", "h", "r", "o", "p", "i", "c">>

K_offline == <<"o", "f", "f", "l", "i", "n", "e">>

K_none == <<"n", "o", "n", "e">>

K_empty == <<>>

OLLAMA_URL ==
    <<"h", "t", "t", "p", ":", "/", "/", "l", "o", "c", "a", "l", "h", "o",
    "s", "t", ":", "1", "1", "4", "3", "4">>

OLLAMA_MODEL == <<"l", "l", "a", "m", "a", "3">>

LMSTUDIO_URL ==
    <<"h", "t", "t", "p", ":", "/", "/", "l", "o", "c", "a", "l", "h", "o",
    "s", "t", ":", "1", "2", "3", "4">>

LMSTUDIO_MODEL == <<"l", "o", "c", "a", "l", "-", "m", "o", "d", "e", "l">>

OPENAI_MODEL == <<"g", "p", "t", "-", "4", "o", "-", "m", "i", "n", "i">>

CLAUDE_MODEL ==
    <<"c", "l", "a", "u", "d", "e", "-", "h", "a", "i", "k", "u", "-", "4",
    "-", "5", "-", "2", "0", "2", "5", "1", "0", "0", "1">>

Provider(variant, base_url, model, api_key) ==
    [variant |-> variant, base_url |-> base_url, model |-> model, api_key |-> api_key]

OllamaProvider(base_url, model) == Provider("OllamaProvider", rstrip(base_url), model, <<>>)

LMStudioProvider(base_url, model) == Provider("LMStudioProvider", rstrip(base_url), model, <<>>)

OpenAIProvider(api_key, model) == Provider("OpenAIProvider", <<>>, model, api_key)

ClaudeProvider(api_key, model) == Provider("ClaudeProvider", <<>>, model, api_key)

OfflineProvider == Provider("OfflineProvider", <<>>, <<>>, <<>>)

NoProvider == Provider("none", <<>>, <<>>, <<>>)

\* the kinds the message of the unknown-provider error lists
ListedKinds == {"ollama", "lmstudio", "openai/chatgpt", "claude/anthropic", "offline"}

Built(prov) == [exc |-> FALSE, err |-> "none", listed |-> {}, prov |-> prov]

Raised(err, listed) == [exc |-> TRUE, err |-> err, listed |-> listed, prov |-> NoProvider]

\* the keyword argument: the override when it is truthy, else the default
Kwarg(o, default) == IF Truthy(o) THEN o.v ELSE default

\* an unmapped kind falls back to the offline provider
kind_of_lenient(p) ==
    IF p = K_ollama THEN "ollama"
    ELSE IF p \in {K_lmstudio, K_lm_studio, K_lm_dash} THEN "lmstudio"
    ELSE IF p \in {K_openai, K_chatgpt} THEN "openai"
    ELSE IF p \in {K_claude, K_anthropic} THEN "claude"
    ELSE "offline"

\* the branch of build_provider a lower-cased kind string selects
kind_of(p) ==
    IF p = K_ollama THEN "ollama"
    ELSE IF p \in {K_lmstudio, K_lm_studio, K_lm_dash} THEN "lmstudio"
    ELSE IF p \in {K_openai, K_chatgpt} THEN "openai"
    ELSE IF p \in {K_claude, K_anthropic} THEN "claude"
    ELSE IF p \in {K_offline, K_none, K_empty} THEN "offline"
    ELSE "unknown"

build_provider(provider, api_key, base_url, model) ==
    LET k == kind_of(lower(provider)) IN
    IF k = "ollama"
    THEN Built(OllamaProvider(Kwarg(base_url, OLLAMA_URL), Kwarg(model, OLLAMA_MODEL)))
    ELSE IF k = "lmstudio"
    THEN Built(LMStudioProvider(Kwarg(base_url, LMSTUDIO_URL), Kwarg(model, LMSTUDIO_MODEL)))
    ELSE IF k = "openai"
    THEN IF ~Truthy(api_key) THEN Raised("ValueError", {})
         ELSE Built(OpenAIProvider(api_key.v, Kwarg(model, OPENAI_MODEL)))
    ELSE IF k = "claude"
    THEN IF ~Truthy(api_key) THEN Raised("ValueError", {})
         ELSE Built(ClaudeProvider(api_key.v, Kwarg(model, CLAUDE_MODEL)))
    ELSE IF k = "offline"
    THEN Built(OfflineProvider)
    ELSE Raised("ValueError", ListedKinds)

Resolved(prov, exc, tried, failed, warned) ==
    [prov |-> prov, exc |-> exc, tried |-> tried, failed |-> failed, warned |-> warned]

\* the environment fallback of the credential
env_key(provider, api_key, env) ==
    IF Truthy(api_key) THEN api_key
    ELSE IF provider \in {K_openai, K_chatgpt} THEN env.OPENAI_API_KEY
    ELSE IF provider \in {K_claude, K_anthropic} THEN env.ANTHROPIC_API_KEY
    ELSE api_key

\* no handler around the factory call
resolve_provider_notry(provider, api_key, base_url, model, env) ==
    IF provider = K_empty \/ provider = K_offline
    THEN Resolved(OfflineProvider, FALSE, FALSE, FALSE, FALSE)
    ELSE LET b == build_provider(provider, env_key(provider, api_key, env), base_url, model)
         IN  Resolved(b.prov, b.exc, TRUE, b.exc, FALSE)

resolve_provider(provider, api_key, base_url, model, env) ==
    IF provider = K_empty \/ provider = K_offline
    THEN Resolved(OfflineProvider, FALSE, FALSE, FALSE, FALSE)
    ELSE LET b == build_provider(provider, env_key(provider, api_key, env), base_url, model)
         IN  IF b.exc
             THEN Resolved(OfflineProvider, FALSE, TRUE, TRUE, TRUE)
             ELSE Resolved(b.prov, FALSE, TRUE, FALSE, FALSE)

\* what the last factory or resolution call returned
NoBuilt ==
    [op |-> "none", exc |-> FALSE, err |-> "none", listed |-> {}, prov |-> NoProvider,
     tried |-> FALSE, failed |-> FALSE, warned |-> FALSE]

NoConf ==
    [provider |-> K_empty, api_key |-> NoStr, base_url |-> NoStr, model |-> NoStr,
     env |-> [OPENAI_API_KEY |-> NoStr, ANTHROPIC_API_KEY |-> NoStr]]

\* build_provider(provider, api_key=..., base_url=..., model=...)
BuildProvider ==
    LET b == build_provider(conf.provider, conf.api_key, conf.base_url, conf.model) IN
    /\ built' = [op |-> "build", exc |-> b.exc, err |-> b.err, listed |-> b.listed,
                 prov |-> b.prov, tried |-> TRUE, failed |-> b.exc, warned |-> FALSE]
    /\ UNCHANGED <<file, dir, clock, last, scen, conf, hist, race>>

\* _resolve_provider(provider, api_key, base_url, model)
ResolveProvider ==
    LET r == resolve_provider(conf.provider, conf.api_key, conf.base_url, conf.model,
                              conf.env) IN
    /\ built' = [op |-> "resolve", exc |-> r.exc, err |-> "none", listed |-> {},
                 prov |-> r.prov, tried |-> r.tried, failed |-> r.failed,
                 warned |-> r.warned]
    /\ UNCHANGED <<file, dir, clock, last, scen, conf, hist, race>>

\* click.Choice([...], case_sensitive=False) of --provider: any casing of
\* a declared choice is accepted and the declared choice is the value
Choices == {K_ollama, K_lmstudio, K_openai, K_chatgpt, K_claude, K_anthropic, K_offline}

click_choice(provider) == lower(provider)

\* --api-key with envvar=["OPENAI_API_KEY", "ANTHROPIC_API_KEY"]: without
\* the flag click takes the first variable of the list that is set and
\* not empty
click_api_key(flag, env) ==
    IF flag.some THEN flag
    ELSE IF Truthy(env.OPENAI_API_KEY) THEN env.OPENAI_API_KEY
    ELSE IF Truthy(env.ANTHROPIC_API_KEY) THEN env.ANTHROPIC_API_KEY
    ELSE NoStr

\* the provider a command gets: main's options, then _resolve_provider
MainProvider ==
    /\ click_choice(conf.provider) \in Choices
    /\ LET r == resolve_provider(click_choice(conf.provider),
                                 click_api_key(conf.api_key, conf.env),
                                 conf.base_url, conf.model, conf.env) IN
       built' = [op |-> "main", exc |-> r.exc, err |-> "none", listed |-> {},
                 prov |-> r.prov, tried |-> r.tried, failed |-> r.failed,
                 warned |-> r.warned]
    /\ UNCHANGED <<file, dir, clock, last, scen, conf, hist, race>>

----------------------------------------------------------------------------
(* Commands (cli.py).  last records the command that has just finished:    *)
(* the file and clock it found, the storage fault that struck it, the      *)
(* sample it drew (None when it drew none) and what it did.  It is         *)
(* forgotten when time passes.                                             *)

Last(cmd, io, pre, preDir, t0, g, exit, ran, report) ==
    [cmd |-> cmd, io |-> IF g.hit THEN io ELSE "none", sample |-> g.sample,
     pre |-> pre, preDir |-> preDir, t0 |-> t0, ret |-> g.ret, path |-> g.path,
     asks |-> g.asks, prov |-> g.prov, answer |-> g.answer, writes |-> g.writes,
     lu |-> g.lu, exit |-> exit, ran |-> ran, report |-> report,
     known |-> TRUE]

NoLast ==
    Last("none", "none", NoFile, FALSE, 0, NoGate(World(NoFile, FALSE), 0),
         "none", FALSE, "none")

\* progress of the scenario  fresh environment, PASS, FAIL, consult again
ScenOff == [step |-> -1, t |-> 0]

ScenNext(sc, g, sample, t0) ==
    IF g.hit THEN ScenOff
    ELSE IF sc.step = 0 /\ sample >= DOOM_PROBABILITY THEN [step |-> 1, t |-> 0]
    ELSE IF sc.step = 1 /\ sample < DOOM_PROBABILITY THEN [step |-> 2, t |-> g.tEnd]
    ELSE IF sc.step = 2 /\ t0 - sc.t < LOCKOUT_HOURS THEN [step |-> 3, t |-> 0]
    ELSE ScenOff

\* the history of an environment followed from its creation: the clock
\* times at which _set_lockout ran to its end.  It is kept only when on.
NoHist == [on |-> FALSE, sets |-> {}]

HistNext(h, l, tEnd) ==
    IF h.on /\ l.path = "FAIL" /\ l.ret = "deny"
    THEN [on |-> TRUE, sets |-> h.sets \cup {tEnd}]
    ELSE h

Apply(w, tEnd, l, sc) ==
    /\ tEnd <= MaxClock
    /\ file' = w.file
    /\ dir' = w.dir
    /\ clock' = tEnd
    /\ last' = l
    /\ scen' = sc
    /\ hist' = HistNext(hist, l, tEnd)
    /\ UNCHANGED <<conf, built, race>>

\* the inputs a gate evaluation reads: a sample only when it rolls, the
\* provider and its delay only when the roll dooms
RolledSamples(c) == IF c.exc \/ c.val # None THEN {0} ELSE Samples

AskedProviders(c, sample) ==
    IF c.exc \/ c.val # None \/ ~roll_dice(sample) THEN {"answer1"} ELSE Providers

AskDelays(c, sample) ==
    IF c.exc \/ c.val # None \/ ~roll_dice(sample) THEN {0} ELSE AskDelay

\* redteamoracle oracle
OracleCmd(faults) ==
    \E io \in faults :
      LET c == is_locked_out(World(file, dir), clock, io) IN
      \E sample \in RolledSamples(c) :
        \E prov \in AskedProviders(c, sample), delay \in AskDelays(c, sample) :
          LET g == consult_oracle(World(file, dir), clock, delay, sample, prov, io)
              exit == IF g.ret = "allow" THEN "0"
                      ELSE IF g.ret = "deny" THEN "1" ELSE "raise"
          IN  Apply(g.w, g.tEnd,
                    Last("oracle", io, file, dir, clock, g, exit, FALSE, "none"),
                    ScenNext(scen, g, sample, clock))

\* the MODULE argument of run: whether get_module finds it
ModuleKnown == BOOLEAN

\* the unknown-module error printed before the gate is evaluated
unknown_reported_first(g, known) == ~known

\* the unknown-module error is printed when the lookup is reached and fails
unknown_reported(g, known) == g.ret \in {"allow", "none"} /\ ~known

\* the exit after a denial left out: the module runs whatever the gate said
module_runs_anyway(g, known) == known

\* module.run is reached when the gate allowed and the module is known
module_runs(g, known) == g.ret = "allow" /\ known

\* redteamoracle run MODULE --target T
RunCmd(faults) ==
    \E io \in faults :
      LET c == is_locked_out(World(file, dir), clock, io) IN
      \E sample \in RolledSamples(c) :
        \E prov \in AskedProviders(c, sample), delay \in AskDelays(c, sample) :
          LET g == consult_oracle(World(file, dir), clock, delay, sample, prov, io) IN
          \E known \in ModuleKnown :
            LET exit == IF g.ret = "raise" THEN "raise"
                        ELSE IF g.ret = "deny" THEN "1"
                        ELSE IF known THEN "0" ELSE "1"
            IN  Apply(g.w, g.tEnd,
                      [Last("run", io, file, dir, clock, g, exit,
                            module_runs(g, known),
                            IF unknown_reported(g, known)
                            THEN "unknown module" ELSE "none")
                         EXCEPT !.known = known],
                      ScenNext(scen, g, sample, clock))

\* redteamoracle --skip-oracle run MODULE --target T
RunSkipCmd ==
    LET g == NoGate(World(file, dir), clock) IN
    \E known \in ModuleKnown :
      Apply(g.w, g.tEnd,
            [Last("run_skip", "none", file, dir, clock, g,
                  IF known THEN "0" ELSE "1", known,
                  IF unknown_reported(g, known) THEN "unknown module" ELSE "none")
               EXCEPT !.known = known],
            ScenOff)

\* redteamoracle status
StatusCmd(faults) ==
    \E io \in faults :
        LET c == is_locked_out(World(file, dir), clock, io)
            l == load_state(c.w, io)
            exc == c.exc \/ l.exc
            g == Gate(l.w, "none", "none", None, 0, "none", "none", c.writes, c.val,
                      clock, c.hit \/ l.hit)
        IN  Apply(g.w, clock,
                  Last("status", io, file, dir, clock, g,
                       IF exc THEN "raise" ELSE "0", FALSE,
                       IF exc THEN "none"
                       ELSE IF c.val # None THEN "LOCKED OUT" ELSE "CLEAR"),
                  ScenOff)

\* redteamoracle unlock --confirm
UnlockCmd(faults) ==
    \E io \in faults :
        LET c == clear_lockout(World(file, dir), io)
            g == Gate(c.w, "none", "none", None, 0, "none", "none", c.writes, None,
                      clock, c.hit)
        IN  Apply(g.w, clock,
                  Last("unlock", io, file, dir, clock, g,
                       IF c.exc THEN "raise" ELSE "0", FALSE, "none"),
                  ScenOff)

\* time passes between two commands
Tick ==
    \E d \in Elapsed :
        /\ clock + d <= MaxClock
        /\ clock' = clock + d
        /\ last' = NoLast
        /\ UNCHANGED <<file, dir, scen, conf, built, hist, race>>

----------------------------------------------------------------------------
(* Two gate invocations in separate processes on one state file.  Each    *)
(* process runs consult_oracle step by step: a step is one access to the  *)
(* file (exists + read_text, the truncating open of write_text, the write *)
(* of its bytes) or the roll.  The provider is asked between the roll and *)
(* _set_lockout and touches no file; the time it takes is a Tick.         *)

Procs == {1, 2}

RaceSamples == {41, 42}

\* the length of a file's bytes, counted in keys of the record dumped;
\* an absent or empty file has none
NoBytes == -1

SizeOf(f) == IF f.kind = "object" THEN Cardinality(DOMAIN f.obj) ELSE NoBytes

\* bytes of two writers in one file: json.loads rejects them
Mixed == [kind |-> "garbage", obj |-> EmptyDict, edited |-> TRUE]

\* the file opened without truncation
open_w_keep(f, size) ==
    [file |-> IF f.kind = "absent" THEN Truncated ELSE f, size |-> size]

\* open(path, "w"): the file is created or truncated to no bytes
open_w(f, size) == [file |-> Truncated, size |-> NoBytes]

\* the bytes appended to whatever the file holds
write_bytes_append(size, d) ==
    IF size = NoBytes
    THEN [file |-> Dumped(d), size |-> Cardinality(DOMAIN d)]
    ELSE [file |-> Mixed, size |-> size + Cardinality(DOMAIN d)]

\* write_text's write at offset 0 through the descriptor opened earlier:
\* bytes another writer put there since, beyond the end of the record
\* written, stay in the file
write_bytes(size, d) ==
    IF size <= Cardinality(DOMAIN d)
    THEN [file |-> Dumped(d), size |-> Cardinality(DOMAIN d)]
    ELSE [file |-> Mixed, size |-> size]

Writing == {"expire_write", "set_write"}

NoRace ==
    [pc |-> [p \in Procs |-> "idle"], st |-> [p \in Procs |-> EmptyDict],
     ret |-> [p \in Procs |-> "none"], path |-> [p \in Procs |-> "none"],
     size |-> NoBytes, lastw |-> EmptyDict, lastkind |-> "none", lastby |-> 0,
     nwrites |-> 0, overlap |-> FALSE, installed |-> {}]

RaceFrame == UNCHANGED <<clock, last, scen, conf, built, hist>>

Finish(p, ret, path) ==
    [race EXCEPT !.pc[p] = "done", !.ret[p] = ret, !.path[p] = path]

\* _is_locked_out up to its write: load, compare with the clock, drop an
\* expired key from the record in memory
RaceCheck(p) ==
    /\ race.pc[p] = "check"
    /\ LET l == load_state(World(file, dir), "none") IN
       /\ dir' = l.w.dir
       /\ file' = file
       /\ race' =
            IF l.val.kind = "scalar"
            THEN Finish(p, "raise", "CHECKING_LOCKOUT")
            ELSE IF l.val.kind # "object" \/ "locked_until" \notin DOMAIN l.val.obj
            THEN [race EXCEPT !.pc[p] = "roll"]
            ELSE IF ~IsIso(l.val.obj["locked_until"])
            THEN Finish(p, "raise", "CHECKING_LOCKOUT")
            ELSE IF ~Expired(clock, fromisoformat(l.val.obj["locked_until"]))
            THEN Finish(p, "deny", "LOCKED")
            ELSE [race EXCEPT !.pc[p] = "expire_open",
                              !.st[p] = DictDel(l.val.obj, "locked_until")]
    /\ RaceFrame

\* _save_state, first half: write_text opens the file for writing
RaceOpen(p) ==
    /\ race.pc[p] \in {"expire_open", "set_open"}
    /\ LET o == open_w(file, race.size) IN
       /\ file' = o.file
       /\ dir' = TRUE
       /\ race' = [race EXCEPT
                     !.pc[p] = IF @ = "expire_open" THEN "expire_write" ELSE "set_write",
                     !.size = o.size,
                     !.overlap = @ \/ \E q \in Procs \ {p} : race.pc[q] \in Writing]
    /\ RaceFrame

\* _save_state, second half: write_text writes the dumped record
RaceWrite(p) ==
    /\ race.pc[p] \in Writing
    /\ LET wr == write_bytes(race.size, race.st[p])
           set == race.pc[p] = "set_write"
       IN
       /\ file' = wr.file
       /\ dir' = dir
       /\ race' = [race EXCEPT
                     !.pc[p] = IF set THEN "done" ELSE "roll",
                     !.ret[p] = IF set THEN "deny" ELSE @,
                     !.size = wr.size,
                     !.lastw = race.st[p],
                     !.lastkind = IF set THEN "set" ELSE "expire",
                     !.lastby = p,
                     !.nwrites = @ + 1,
                     !.installed = IF set
                                   THEN @ \cup {fromisoformat(race.st[p]["locked_until"])}
                                   ELSE @]
    /\ RaceFrame

\* doomed = _roll_dice()
RaceRoll(p) ==
    /\ race.pc[p] = "roll"
    /\ \E sample \in RaceSamples :
          race' = IF roll_dice(sample)
                  THEN [race EXCEPT !.pc[p] = "set_load", !.path[p] = "FAIL"]
                  ELSE Finish(p, "allow", "PASS")
    /\ UNCHANGED <<file, dir>>
    /\ RaceFrame

\* _set_lockout up to its write: load again, set the key in memory
RaceSetLoad(p) ==
    /\ race.pc[p] = "set_load"
    /\ LET l == load_state(World(file, dir), "none") IN
       /\ dir' = l.w.dir
       /\ file' = file
       /\ race' =
            IF l.val.kind # "object"
            THEN Finish(p, "raise", "FAIL")
            ELSE [race EXCEPT !.pc[p] = "set_open",
                              !.st[p] = DictSet(l.val.obj, "locked_until",
                                                isoformat(clock + LOCKOUT_HOURS))]
    /\ RaceFrame

\* a record an earlier run left, or none; both processes about to start
InitRace ==
    /\ file \in {NoFile, Dumped(EmptyDict)}
                \cup {Dumped(DictSet(EmptyDict, "locked_until", isoformat(t))) :
                        t \in {12, 24, 36}}
    /\ dir = (file.kind # "absent")
    /\ clock = 24
    /\ last = NoLast
    /\ scen = ScenOff
    /\ conf = NoConf
    /\ built = NoBuilt
    /\ hist = NoHist
    /\ race = [NoRace EXCEPT !.pc = [p \in Procs |-> "check"], !.size = SizeOf(file)]

NextRace ==
    \/ \E p \in Procs : RaceCheck(p)
    \/ \E p \in Procs : RaceOpen(p)
    \/ \E p \in Procs : RaceWrite(p)
    \/ \E p \in Procs : RaceRoll(p)
    \/ \E p \in Procs : RaceSetLoad(p)
    \/ Tick

SpecRace == InitRace /\ [][NextRace]_vars

----------------
(* Initial states: any content the state file may have when a command      *)
(* starts, and the fresh environment.                                      *)

StartClocks == {0, 24}

Note == <<"h", "i">>

InitLockedUntil == {isoformat(12), isoformat(24), isoformat(36), <<"x">>}

InitDicts ==
    LET withLu == {EmptyDict} \cup {DictSet(EmptyDict, "locked_until", v) : v \in InitLockedUntil}
    IN  withLu \cup {DictSet(d, "note", Note) : d \in withLu}

InitFiles ==
    {NoFile, Truncated}
    \cup {[kind |-> k, obj |-> EmptyDict, edited |-> TRUE] : k \in {"list", "scalar"}}
    \cup {[kind |-> "object", obj |-> d, edited |-> e] : d \in InitDicts, e \in BOOLEAN}

Init ==
    /\ file \in InitFiles
    /\ dir \in BOOLEAN
    /\ file.kind # "absent" => dir
    /\ clock \in StartClocks
    /\ last = NoLast
    /\ scen = IF file.kind = "absent" THEN [step |-> 0, t |-> 0] ELSE ScenOff
    /\ conf = NoConf
    /\ built = NoBuilt
    /\ hist = NoHist
    /\ race = NoRace

\* storage works
Reliable == {"none"}

Next ==
    \/ OracleCmd(Reliable)
    \/ RunCmd(Reliable)
    \/ RunSkipCmd
    \/ StatusCmd(Reliable)
    \/ UnlockCmd(Reliable)
    \/ Tick

Spec == Init /\ [][Next]_vars

\* the same commands with storage faults: a fresh environment or a record
\* left by an earlier run
InitIO ==
    /\ file \in {NoFile} \cup {Dumped(d) : d \in InitDicts}
    /\ dir \in BOOLEAN
    /\ file.kind # "absent" => dir
    /\ clock = 24
    /\ last = NoLast
    /\ scen = ScenOff
    /\ conf = NoConf
    /\ built = NoBuilt
    /\ hist = NoHist
    /\ race = NoRace

NextIO ==
    \/ OracleCmd(IOFaults)
    \/ RunCmd(IOFaults)
    \/ RunSkipCmd
    \/ StatusCmd(IOFaults)
    \/ UnlockCmd(IOFaults)
    \/ Tick

SpecIO == InitIO /\ [][NextIO]_vars

\* the factory and the provider resolution on their own: the kind strings,
\* credentials, endpoints, models and environments they are called with
OllamaSpellings ==
    {<<"o", "l", "l", "a", "m", "a">>,
     <<"O", "l", "l", "a", "m", "a">>,
     <<"O", "L", "L", "A", "M", "A">>}

LMStudioSpellings ==
    {<<"l", "m", "s", "t", "u", "d", "i", "o">>,
     <<"L", "M", "S", "t", "u", "d", "i", "o">>,
     <<"l", "m", "_", "s", "t", "u", "d", "i", "o">>,
     <<"L", "M", "_", "S", "t", "u", "d", "i", "o">>,
     <<"l", "m", "-", "s", "t", "u", "d", "i", "o">>,
     <<"L", "m", "-", "S", "t", "u", "d", "i", "o">>}

OpenAISpellings ==
    {<<"o", "p", "e", "n", "a", "i">>,
     <<"O", "p", "e", "n", "A", "I">>,
     <<"c", "h", "a", "t", "g", "p", "t">>,
     <<"C", "h", "a", "t", "G", "P", "T">>}

ClaudeSpellings ==
    {<<"c", "l", "a", "u", "d", "e">>,
     <<"C", "l", "a", "u", "d", "e">>,
     <<"a", "n", "t", "h", "r", "o", "p", "i", "c">>,
     <<"A", "N", "T", "H", "R", "O", "P", "I", "C">>}

OfflineKinds == {K_offline, K_none, K_empty}

UnknownKinds ==
    {<<"g", "p", "t">>,
     <<"l", "m", " ", "s", "t", "u", "d", "i", "o">>,
     <<"o", "l", "l", "a", "m", "a", " ">>,
     <<"O", "f", "f", "l", "i", "n", "e", " ", "m", "o", "d", "e">>}

KindStrings ==
    OllamaSpellings \cup LMStudioSpellings \cup OpenAISpellings \cup ClaudeSpellings
    \cup OfflineKinds \cup {<<"O", "f", "f", "l", "i", "n", "e">>, <<"N", "O", "N", "E">>} \cup UnknownKinds

ApiKeys == {NoStr, Str(<<>>), Str(<<"s", "k", "-", "f", "l", "a", "g">>)}

BaseUrls == {NoStr, Str(<<>>), Str(<<"h", "t", "t", "p", ":", "/", "/", "h", ":", "1">>), Str(<<"h", "t", "t", "p", ":", "/", "/", "h", ":", "1", "/", "/">>)}

Models == {NoStr, Str(<<"m", "1">>)}

Environments ==
    [OPENAI_API_KEY : {NoStr, Str(<<"s", "k", "-", "o", "p", "e", "n", "a", "i">>)},
     ANTHROPIC_API_KEY : {NoStr, Str(<<"s", "k", "-", "a", "n", "t">>)}]

InitProvider ==
    /\ file = NoFile
    /\ dir = FALSE
    /\ clock = 0
    /\ last = NoLast
    /\ scen = ScenOff
    /\ conf \in [provider : KindStrings, api_key : ApiKeys, base_url : BaseUrls,
                 model : Models, env : Environments]
    /\ built = NoBuilt
    /\ hist = NoHist
    /\ race = NoRace

NextProvider == BuildProvider \/ ResolveProvider \/ MainProvider

SpecProvider == InitProvider /\ [][NextProvider]_vars

\* an empty environment followed from its creation through consult,
\* status and unlock commands
InitFresh ==
    /\ file = NoFile
    /\ dir = FALSE
    /\ clock = 0
    /\ last = NoLast
    /\ scen = ScenOff
    /\ conf = NoConf
    /\ built = NoBuilt
    /\ hist = [on |-> TRUE, sets |-> {}]
    /\ race = NoRace

NextFresh ==
    \/ OracleCmd(Reliable)
    \/ RunCmd(Reliable)
    \/ StatusCmd(Reliable)
    \/ UnlockCmd(Reliable)
    \/ Tick

SpecFresh == InitFresh /\ [][NextFresh]_vars

\* the commands of Spec with time passing: the clock is never held back
\* for ever
SpecLive == Init /\ [][Next]_vars /\ WF_vars(Tick)

TypeOK ==
    /\ file.kind \in {"absent", "garbage", "list", "scalar", "object"}
    /\ DOMAIN file.obj \subseteq {"locked_until", "note"}
    /\ file.kind # "absent" => dir
    /\ clock \in 0..MaxClock

----------------------------------------------------------------------------
(* Vocabulary of the properties *)

\* the gate was evaluated by the command that has just finished
GateRan == last.cmd \in {"oracle", "run"}

HasKey(f) == f.kind = "object" /\ "locked_until" \in DOMAIN f.obj

HasLockedUntil(f) == HasKey(f) /\ IsIso(f.obj["locked_until"])

LockedUntilOf(f) == fromisoformat(f.obj["locked_until"])

\* the persisted record holds a locked_until strictly later than t
Active(f, t) == HasLockedUntil(f) /\ t < LockedUntilOf(f)

\* no state file, an unparsable one, or a record without an active lockout
Unlocked(f, t) ==
    \/ f.kind \in {"absent", "garbage"}
    \/ f.kind = "object" /\ ~HasKey(f)
    \/ HasLockedUntil(f) /\ ~(t < LockedUntilOf(f))

----------------------------------------------------------------------------
(* Properties, storage working (Spec) *)

\* C1: when the persisted record holds a locked_until strictly later than
\* the clock, the gate denies on the LOCKED path: it draws no sample, does
\* not call the provider's ask, writes nothing, returns the stored
\* timestamp and leaves the state file exactly as it was, however often
\* it is consulted.
C1_LockedDeniesUntouched ==
    (GateRan /\ Active(last.pre, last.t0)) =>
        /\ last.ret = "deny"
        /\ last.path = "LOCKED"
        /\ last.sample = None
        /\ last.asks = 0
        /\ last.writes = 0
        /\ last.lu = LockedUntilOf(last.pre)
        /\ file = last.pre

C1_Witness ==
    /\ GateRan
    /\ Active(last.pre, last.t0)
    /\ Active(file, clock)
    /\ last.ret = "deny"

\* C2: when no lockout is active and the sample is below the doom
\* probability, the gate denies, calls the provider's ask exactly once and
\* leaves a record whose locked_until a following lockout check returns
\* as active.
C2_FailDeniesAndLocks ==
    (GateRan /\ Unlocked(last.pre, last.t0)
        /\ last.sample # None /\ last.sample < DOOM_PROBABILITY) =>
        /\ last.ret = "deny"
        /\ last.asks = 1
        /\ HasLockedUntil(file)
        /\ LET c == is_locked_out(World(file, dir), clock, "none") IN
           /\ ~c.exc
           /\ c.val # None
           /\ c.val = LockedUntilOf(file)
           /\ clock < c.val

C2_Witness ==
    /\ GateRan
    /\ Unlocked(last.pre, last.t0)
    /\ last.path = "FAIL"
    /\ last.ret = "deny"
    /\ Active(file, clock)

\* C3: when the provider's ask raises on the FAIL branch, the gate still
\* denies and installs the 24-hour lockout, and leaves the same state file
\* as the run in which ask answers.
C3_AskRaisesStillLocks ==
    (GateRan /\ last.prov = "raises") =>
        LET g == consult_oracle(World(last.pre, last.preDir), last.t0,
                                clock - last.t0, last.sample, "answer1", "none")
        IN  /\ last.ret = g.ret
            /\ file = g.w.file
            /\ last.lu = g.lu
            /\ Unlocked(last.pre, last.t0) =>
                  /\ last.ret = "deny"
                  /\ last.answer = "placeholder"
                  /\ HasLockedUntil(file)
                  /\ LockedUntilOf(file) = clock + LOCKOUT_HOURS

C3_Witness ==
    /\ GateRan
    /\ last.prov = "raises"
    /\ last.ret = "deny"
    /\ Active(file, clock)

\* C4 as stated: on the PASS branch the gate allows and the state file is
\* identical before and after, for every prior state without an active
\* lockout, a record with an expired locked_until included.
C4_PassWritesNothing ==
    (GateRan /\ Unlocked(last.pre, last.t0)
        /\ last.sample # None /\ last.sample >= DOOM_PROBABILITY) =>
        /\ last.ret = "allow"
        /\ last.writes = 0
        /\ file = last.pre

\* C4 amended: on the PASS branch the gate allows and installs no lockout;
\* the state file is identical before and after when the prior state holds
\* no locked_until (no file, unparsable file, record without the key);
\* when the record holds an expired locked_until the one write is the
\* lazy-expiry write, which saves the record without locked_until and
\* with every other key unchanged.
C4_PassFrame ==
    (GateRan /\ Unlocked(last.pre, last.t0)
        /\ last.sample # None /\ last.sample >= DOOM_PROBABILITY) =>
        /\ last.ret = "allow"
        /\ last.path = "PASS"
        /\ ~HasKey(file)
        /\ IF HasKey(last.pre)
           THEN /\ last.writes = 1
                /\ file = Dumped(DictDel(last.pre.obj, "locked_until"))
           ELSE /\ last.writes = 0
                /\ file = last.pre

C4_Witness ==
    /\ GateRan
    /\ last.path = "PASS"
    /\ HasLockedUntil(last.pre)
    /\ "note" \in DOMAIN last.pre.obj
    /\ last.ret = "allow"

\* C5: the result of the gate and the state file it leaves do not depend
\* on the provider: the run that has just finished and the run from the
\* same prior state, clock readings and sample with any other provider
\* (another answer, or ask raising) take the same path, return the same
\* result and expiry and leave the same state file.
C5_ProviderCannotDecide ==
    GateRan =>
        \A prov \in Providers :
            LET g == consult_oracle(World(last.pre, last.preDir), last.t0,
                                    clock - last.t0, last.sample, prov, "none")
            IN  /\ g.ret = last.ret
                /\ g.path = last.path
                /\ g.lu = last.lu
                /\ g.w.file = file
                /\ HasKey(g.w.file) = HasKey(file)

C5_Witness ==
    /\ GateRan
    /\ last.path = "FAIL"
    /\ last.prov = "answer2"
    /\ last.ret = "deny"
    /\ HasKey(file)

\* C6: for a record whose locked_until is not later than the clock, the
\* lockout check returns not-locked and saves the record without
\* locked_until; a second check returns not-locked again, writes nothing
\* and leaves the file as the first left it.
C6_LazyExpiryOnce ==
    (last.cmd = "status" /\ HasLockedUntil(last.pre)
        /\ ~(last.t0 < LockedUntilOf(last.pre))) =>
        /\ last.lu = None
        /\ last.report = "CLEAR"
        /\ last.writes = 1
        /\ ~HasKey(file)
        /\ file = Dumped(DictDel(last.pre.obj, "locked_until"))
        /\ \A t \in clock..MaxClock :
              LET c == is_locked_out(World(file, dir), t, "none") IN
              /\ ~c.exc
              /\ c.val = None
              /\ c.writes = 0
              /\ c.w.file = file

C6_Witness ==
    /\ last.cmd = "status"
    /\ HasLockedUntil(last.pre)
    /\ ~(last.t0 < LockedUntilOf(last.pre))
    /\ last.report = "CLEAR"

\* C7: after the unlock command a lockout check returns not-locked,
\* whatever the prior state was (active lockout, expired lockout, record
\* without the key, unparsable file, no file); the command draws no
\* sample and calls no provider.
C7_UnlockThenNotLocked ==
    (last.cmd = "unlock" /\ last.pre.kind \in {"absent", "garbage", "object"}) =>
        /\ last.exit = "0"
        /\ last.path = "none"
        /\ last.sample = None
        /\ last.asks = 0
        /\ ~HasKey(file)
        /\ \A t \in clock..MaxClock :
              LET c == is_locked_out(World(file, dir), t, "none") IN
              ~c.exc /\ c.val = None

C7_Witness ==
    /\ last.cmd = "unlock"
    /\ Active(last.pre, last.t0)
    /\ last.exit = "0"

\* C8: set_lockout called at clock t returns t + 24 hours and saves its ISO
\* text as locked_until, replacing any earlier value; every lockout check
\* made before t + 24 hours returns exactly that timestamp and writes
\* nothing.
C8_SetLockoutRoundTrip ==
    /\ (GateRan /\ last.path = "FAIL" /\ last.ret = "deny") =>
          /\ last.lu = clock + LOCKOUT_HOURS
          /\ HasKey(file)
          /\ file.obj["locked_until"] = isoformat(clock + LOCKOUT_HOURS)
          /\ \A t \in clock..(clock + LOCKOUT_HOURS - 1) :
                LET c == is_locked_out(World(file, dir), t, "none") IN
                ~c.exc /\ c.val = last.lu /\ c.writes = 0
    /\ file.kind \in {"absent", "garbage", "object"} =>
          \A now \in clock..(clock + LOCKOUT_HOURS - 1) :
             LET s == set_lockout(World(file, dir), now, "none") IN
             /\ ~s.exc
             /\ s.val = now + LOCKOUT_HOURS
             /\ LockedUntilOf(s.w.file) = s.val
             /\ is_locked_out(s.w, now, "none").val = s.val
             /\ is_locked_out(s.w, s.val - 1, "none").val = s.val

C8_Witness ==
    /\ GateRan
    /\ last.path = "FAIL"
    /\ last.ret = "deny"
    /\ HasLockedUntil(last.pre)
    /\ last.lu = clock + LOCKOUT_HOURS
    /\ last.lu % 24 # 0

\* C9: from a fresh environment (no state file): a consult with a PASS
\* sample allows and creates no state file; a following consult with a
\* FAIL sample denies and leaves a state file with a locked_until later
\* than the clock; a consult made after that, within the 24 hours and with
\* any sample, denies without calling the provider.
C9_FreshPassFailLocked ==
    /\ scen.step = 1 =>
          /\ file.kind = "absent"
          /\ GateRan => last.ret = "allow"
    /\ (scen.step = 2 /\ GateRan) =>
          /\ last.ret = "deny"
          /\ file.kind = "object"
          /\ Active(file, clock)
    /\ (scen.step = 3 /\ GateRan) =>
          /\ last.ret = "deny"
          /\ last.asks = 0
          /\ last.sample = None
          /\ file = last.pre

C9_Witness ==
    /\ scen.step = 3
    /\ GateRan
    /\ last.ret = "deny"
    /\ last.asks = 0

\* C10: over any sequence of consult, run, status and unlock commands, a
\* command that finds an active lockout and is not unlock leaves the state
\* file exactly as it was, and a command after which locked_until is gone
\* is either unlock or a lockout check made when the stored expiry was no
\* longer later than the clock.
C10_OnlyUnlockOrExpiryRemoves ==
    last.cmd # "none" =>
        /\ (Active(last.pre, last.t0) /\ last.cmd # "unlock") =>
              /\ file = last.pre
              /\ last.writes = 0
        /\ (HasKey(last.pre) /\ ~HasKey(file)) =>
              \/ last.cmd = "unlock"
              \/ /\ last.cmd \in {"oracle", "run", "status"}
                 /\ HasLockedUntil(last.pre)
                 /\ ~(last.t0 < LockedUntilOf(last.pre))

C10_Witness ==
    /\ last.cmd = "status"
    /\ Active(last.pre, last.t0)
    /\ last.report = "LOCKED OUT"
    /\ Active(file, clock)

----------------------------------------------------------------------------
(* Properties of the factory and the provider resolution (SpecProvider) *)

CloudSpellings == OpenAISpellings \cup ClaudeSpellings

LocalSpellings == OllamaSpellings \cup LMStudioSpellings

Slashes(n) == [i \in 1..n |-> "/"]

\* C12: build_provider raises its configuration error (ValueError) for a
\* cloud kind requested with no credential (None or empty), raises the
\* same kind of error, its message listing the recognised kinds, for an
\* unrecognised kind string, and returns the offline provider for the
\* kinds offline, none and the empty string, whatever the credential.
C12_FactoryErrors ==
    built.op = "build" =>
        /\ (conf.provider \in CloudSpellings /\ ~Truthy(conf.api_key)) =>
              /\ built.exc
              /\ built.err = "ValueError"
              /\ built.prov = NoProvider
        /\ conf.provider \in UnknownKinds =>
              /\ built.exc
              /\ built.err = "ValueError"
              /\ built.listed = ListedKinds
        /\ conf.provider \in OfflineKinds =>
              /\ ~built.exc
              /\ built.prov = OfflineProvider

C12_Witness ==
    /\ built.op = "build"
    /\ conf.provider \in UnknownKinds
    /\ Truthy(conf.api_key)
    /\ built.exc
    /\ built.listed = ListedKinds

\* C13 as stated: the kind string selects the variant case-insensitively
\* and through its aliases, and a supplied endpoint or model override is
\* the one the constructed provider uses (the endpoint compared up to
\* trailing slashes).
C13_OverridesAlwaysUsed ==
    (built.op = "build" /\ conf.provider \in LocalSpellings \cup CloudSpellings
        /\ (conf.provider \in CloudSpellings => Truthy(conf.api_key))) =>
        /\ ~built.exc
        /\ conf.provider \in OllamaSpellings => built.prov.variant = "OllamaProvider"
        /\ conf.provider \in LMStudioSpellings => built.prov.variant = "LMStudioProvider"
        /\ conf.provider \in OpenAISpellings => built.prov.variant = "OpenAIProvider"
        /\ conf.provider \in ClaudeSpellings => built.prov.variant = "ClaudeProvider"
        /\ Truthy(conf.model) => built.prov.model = conf.model.v
        /\ Truthy(conf.base_url) =>
              \E n \in 0..2 : conf.base_url.v = built.prov.base_url \o Slashes(n)

\* C13 amended: the kind string selects the variant case-insensitively and
\* through its aliases (ollama: local-generate; lmstudio, lm_studio,
\* lm-studio: local-chat; openai, chatgpt: cloud-chat-A and claude,
\* anthropic: cloud-chat-B when a credential is given); a supplied model
\* override is the model the constructed provider uses; a supplied
\* endpoint override is used, its trailing slashes removed, by the two
\* local variants only: the two cloud variants take no endpoint and
\* ignore it; the cloud variants use the credential given.
C13_KindsAndOverrides ==
    (built.op = "build" /\ conf.provider \in LocalSpellings \cup CloudSpellings
        /\ (conf.provider \in CloudSpellings => Truthy(conf.api_key))) =>
        /\ ~built.exc
        /\ conf.provider \in OllamaSpellings => built.prov.variant = "OllamaProvider"
        /\ conf.provider \in LMStudioSpellings => built.prov.variant = "LMStudioProvider"
        /\ conf.provider \in OpenAISpellings => built.prov.variant = "OpenAIProvider"
        /\ conf.provider \in ClaudeSpellings => built.prov.variant = "ClaudeProvider"
        /\ Truthy(conf.model) => built.prov.model = conf.model.v
        /\ (conf.provider \in LocalSpellings /\ Truthy(conf.base_url)) =>
              /\ \E n \in 0..2 : conf.base_url.v = built.prov.base_url \o Slashes(n)
              /\ built.prov.base_url # <<>>
              /\ built.prov.base_url[Len(built.prov.base_url)] # "/"
        /\ conf.provider \in CloudSpellings =>
              /\ built.prov.base_url = <<>>
              /\ built.prov.api_key = conf.api_key.v

C13_Witness ==
    /\ built.op = "build"
    /\ conf.provider \in LMStudioSpellings \ {K_lmstudio, K_lm_studio, K_lm_dash}
    /\ Truthy(conf.base_url)
    /\ conf.base_url.v # built.prov.base_url
    /\ Truthy(conf.model)
    /\ built.prov.variant = "LMStudioProvider"

\* C14: the provider resolution of the command line never raises: for
\* every kind, credential, endpoint, model and environment it returns a
\* provider; when the factory fails (unrecognised kind, cloud kind with
\* neither a credential nor its environment variable) it returns the
\* offline provider after a warning, and it warns in no other case.
C14_ResolveNeverAborts ==
    built.op = "resolve" =>
        /\ ~built.exc
        /\ built.prov.variant \in {"OllamaProvider", "LMStudioProvider",
                                   "OpenAIProvider", "ClaudeProvider", "OfflineProvider"}
        /\ built.failed => (built.prov = OfflineProvider /\ built.warned)
        /\ built.warned => built.failed
        /\ conf.provider \in UnknownKinds => built.failed
        /\ (conf.provider \in CloudSpellings /\ ~Truthy(conf.api_key)
              /\ ~Truthy(conf.env.OPENAI_API_KEY)
              /\ ~Truthy(conf.env.ANTHROPIC_API_KEY)) => built.failed

C14_Witness ==
    /\ built.op = "resolve"
    /\ conf.provider \in ClaudeSpellings
    /\ built.failed
    /\ built.warned
    /\ built.prov = OfflineProvider

----------------------------------------------------------------------------
(* Properties of an environment followed from its creation (SpecFresh) *)

\* C19: in every state reached from an empty environment by consult,
\* status and unlock commands under a non-decreasing clock, a
\* locked_until in the persisted record is a timestamp equal to the clock
\* time of an earlier FAIL's setLockout plus 24 hours, so it is never more
\* than 24 hours after the current clock; and a record without the key
\* (or no record) makes isLockedOut answer not locked.
C19_LockedUntilIsNowPlus24 ==
    /\ HasKey(file) =>
          /\ HasLockedUntil(file)
          /\ \E t \in hist.sets : t <= clock /\ LockedUntilOf(file) = t + 24
          /\ LockedUntilOf(file) <= clock + 24
    /\ ~HasKey(file) =>
          /\ file.kind \in {"absent", "object"}
          /\ ~is_locked_out(World(file, dir), clock, "none").exc
          /\ is_locked_out(World(file, dir), clock, "none").val = None

C19_Witness ==
    /\ HasKey(file)
    /\ Cardinality(hist.sets) >= 2
    /\ LockedUntilOf(file) < clock + 24
    /\ last.cmd = "status"

\* C28 as stated: the credential of a cloud provider built for a command
\* is the --api-key flag or that provider's own environment variable,
\* never the other vendor's key; with neither the flag nor its own
\* variable set the command gets the offline provider.
C28_OwnCredentialOnly ==
    built.op = "main" =>
        /\ built.prov.variant = "OpenAIProvider" =>
              \/ Truthy(conf.api_key) /\ built.prov.api_key = conf.api_key.v
              \/ Truthy(conf.env.OPENAI_API_KEY)
                    /\ built.prov.api_key = conf.env.OPENAI_API_KEY.v
        /\ built.prov.variant = "ClaudeProvider" =>
              \/ Truthy(conf.api_key) /\ built.prov.api_key = conf.api_key.v
              \/ Truthy(conf.env.ANTHROPIC_API_KEY)
                    /\ built.prov.api_key = conf.env.ANTHROPIC_API_KEY.v
        /\ (conf.provider \in OpenAISpellings /\ ~Truthy(conf.api_key)
              /\ ~Truthy(conf.env.OPENAI_API_KEY)) => built.prov = OfflineProvider
        /\ (conf.provider \in ClaudeSpellings /\ ~Truthy(conf.api_key)
              /\ ~Truthy(conf.env.ANTHROPIC_API_KEY)) => built.prov = OfflineProvider

----------------------------------------------------------------------------
(* Properties under storage faults (SpecIO) *)

\* C15 as stated: load never raises to its caller: a gate evaluation that
\* finds no state file, an unparsable one, or meets a storage error while
\* loading (ensuring the directory exists, reading the file) takes the
\* record as empty, does not raise, and proceeds to roll.
C15_LoadNeverRaises ==
    (/\ last.cmd \in {"oracle", "run"}
     /\ last.io \in {"mkdir", "read"} \/ (last.io = "none" /\ last.pre.kind \in {"absent", "garbage"}))
    => /\ last.exit # "raise"
       /\ last.path \in {"PASS", "FAIL"}

\* C18: when the state-file write fails on the FAIL path the failure
\* surfaces from consult_oracle: the gate returns neither allow nor deny,
\* reports no lockout as installed, the command ends with the error and
\* runs no module; and whenever the gate does report the lockout of a
\* FAIL (deny), the persisted record holds it.
C18_WriteFailureFatal ==
    /\ (GateRan /\ last.path = "FAIL" /\ last.io \in {"open_w", "write"}) =>
          /\ last.ret = "raise"
          /\ last.exit = "raise"
          /\ last.lu = None
          /\ ~last.ran
          /\ ~Active(file, clock)
    /\ (GateRan /\ last.path = "FAIL" /\ last.ret = "deny") =>
          /\ last.lu # None
          /\ HasLockedUntil(file)
          /\ LockedUntilOf(file) = last.lu
          /\ Active(file, clock)

C18_Witness ==
    /\ last.cmd = "run"
    /\ last.path = "FAIL"
    /\ last.io = "write"
    /\ last.ret = "raise"
    /\ file = Truncated
    /\ ~last.ran

----------------------------------------------------------------------------
(* Frame and algebra of the persisted record (Spec) *)

\* C16: keys other than locked_until are tolerated and kept: after any
\* command (its setLockout, clearLockout or lazy-expiry write included)
\* run on a record holding an unknown key, the persisted record still
\* holds every unknown key with its value, and the command raises only
\* when the locked_until value itself is not a timestamp.
C16_UnknownKeysKept ==
    (last.cmd # "none" /\ last.pre.kind = "object" /\ "note" \in DOMAIN last.pre.obj) =>
        /\ file.kind = "object"
        /\ DOMAIN file.obj \ {"locked_until"} = DOMAIN last.pre.obj \ {"locked_until"}
        /\ file.obj["note"] = last.pre.obj["note"]
        /\ last.exit = "raise" =>
              /\ "locked_until" \in DOMAIN last.pre.obj
              /\ ~IsIso(last.pre.obj["locked_until"])

C16_Witness ==
    /\ last.cmd \in {"oracle", "run"}
    /\ last.path = "FAIL"
    /\ last.writes = 2
    /\ "note" \in DOMAIN last.pre.obj
    /\ "locked_until" \in DOMAIN last.pre.obj
    /\ file.kind = "object"
    /\ DOMAIN file.obj = {"locked_until", "note"}
    /\ file.obj["note"] = Note
    /\ file.obj["locked_until"] # last.pre.obj["locked_until"]

\* C17 as stated: clearLockout is a no-op when the user is not locked out
\* and is idempotent: unlock on a record without locked_until, or with no
\* state file at all, leaves persisted storage as it found it, and a
\* second unlock leaves what the first one left.
C17_UnlockNoOpWhenUnlocked ==
    (last.cmd = "unlock" /\ ~last.pre.edited /\ ~HasKey(last.pre)) =>
        /\ file = last.pre
        /\ clear_lockout(World(file, dir), "none").w.file = file

\* C20: a lockout is active only while locked_until is strictly later than
\* the clock: a command run at the very instant the clock equals
\* locked_until finds it expired; the gate rolls (PASS or FAIL) after the
\* key was removed and the cleaned record saved, and status reports no
\* lockout and leaves the record without the key; one hour earlier the
\* same record still denies.
C20_ExpiresAtTheInstant ==
    /\ (last.cmd # "none" /\ HasLockedUntil(last.pre)
          /\ last.t0 = LockedUntilOf(last.pre)) =>
          /\ GateRan =>
                /\ last.path \in {"PASS", "FAIL"}
                /\ last.sample # None
                /\ last.writes >= 1
                /\ last.path = "PASS" =>
                      file = Dumped(DictDel(last.pre.obj, "locked_until"))
          /\ last.cmd = "status" =>
                /\ last.lu = None
                /\ last.writes = 1
                /\ file = Dumped(DictDel(last.pre.obj, "locked_until"))
    /\ (HasLockedUntil(file) /\ clock = LockedUntilOf(file)) =>
          /\ is_locked_out(World(file, dir), clock, "none").val = None
          /\ ~HasKey(is_locked_out(World(file, dir), clock, "none").w.file)
          /\ is_locked_out(World(file, dir), clock - 1, "none").val = clock

C20_Witness ==
    /\ last.cmd = "oracle"
    /\ HasLockedUntil(last.pre)
    /\ last.t0 = LockedUntilOf(last.pre)
    /\ last.path = "PASS"
    /\ ~HasKey(file)

----------------------------------------------------------------------------
(* The roll, the end of a lockout, status and the unknown module (Spec) *)

\* C21: with no active lockout the gate draws one sample and decides by
\* the fixed threshold 0.42 alone: a sample strictly below it gives FAIL,
\* a sample at or above it (0.42 itself included) gives PASS, and neither
\* the provider, nor the time its answer takes, nor the content of the
\* record changes that outcome.
C21_ThresholdAloneDecides ==
    (GateRan /\ Unlocked(last.pre, last.t0)) =>
        /\ last.sample # None
        /\ last.path \in {"PASS", "FAIL"}
        /\ last.path = "FAIL" <=> last.sample < 42
        /\ last.path = "PASS" <=> last.sample >= 42
        /\ last.path = "PASS" => last.ret = "allow"
        /\ \A prov \in Providers, delay \in AskDelay :
              consult_oracle(World(last.pre, last.preDir), last.t0, delay,
                             last.sample, prov, "none").path = last.path

C21_Witness ==
    /\ GateRan
    /\ Unlocked(last.pre, last.t0)
    /\ last.sample = 42
    /\ last.path = "PASS"
    /\ last.ret = "allow"

\* a consult that found a locked_until the clock has passed
ConsultAfterExpiry ==
    /\ GateRan
    /\ HasLockedUntil(last.pre)
    /\ last.t0 > LockedUntilOf(last.pre)

\* a consult denied by a lockout that ends within the horizon of the model
DeniedByLockout ==
    /\ GateRan
    /\ last.path = "LOCKED"
    /\ LockedUntilOf(last.pre) <= MaxClock

Rolled == GateRan /\ last.path \in {"PASS", "FAIL"}

\* C22: a lockout does not last for ever.  A consult that finds a
\* locked_until the clock has passed does not take the LOCKED path: it
\* removes the expired key, saves, and rolls (a PASS leaves the record
\* without the key, a FAIL installs a new lockout counted from its own
\* clock); and, time passing, for a user who keeps consulting a consult
\* denied by a lockout is eventually followed by one that rolls.
C22_LockoutEnds ==
    /\ [](ConsultAfterExpiry =>
             /\ last.path \in {"PASS", "FAIL"}
             /\ last.writes >= 1
             /\ last.path = "PASS" =>
                   /\ last.ret = "allow"
                   /\ file = Dumped(DictDel(last.pre.obj, "locked_until"))
             /\ last.path = "FAIL" =>
                   /\ HasLockedUntil(file)
                   /\ LockedUntilOf(file) = clock + 24
                   /\ last.writes = 2)
    /\ ([]<>GateRan => (DeniedByLockout ~> Rolled))

C22_Witness ==
    /\ ConsultAfterExpiry
    /\ ~last.pre.edited
    /\ last.path = "PASS"
    /\ ~HasKey(file)

\* C24: the status command only reads the lockout state: it draws no
\* sample, asks no provider, installs no lockout and leaves an active
\* locked_until as it is; the only write it can make is the one that
\* removes a locked_until already expired; and it reports LOCKED OUT
\* exactly when isLockedOut returned a timestamp.
C24_StatusOnlyReads ==
    last.cmd = "status" =>
        /\ last.sample = None
        /\ last.asks = 0
        /\ last.path = "none"
        /\ ~last.ran
        /\ last.writes \in {0, 1}
        /\ last.writes = 0 => file = last.pre
        /\ last.writes = 1 =>
              /\ HasLockedUntil(last.pre)
              /\ ~(last.t0 < LockedUntilOf(last.pre))
              /\ file = Dumped(DictDel(last.pre.obj, "locked_until"))
        /\ Active(last.pre, last.t0) => file = last.pre
        /\ HasKey(file) => (HasKey(last.pre) /\ file = last.pre)
        /\ last.exit # "raise" =>
              /\ last.report \in {"LOCKED OUT", "CLEAR"}
              /\ last.report = "LOCKED OUT" <=> last.lu # None
              /\ last.report = "LOCKED OUT" <=> Active(last.pre, last.t0)

C24_Witness ==
    /\ last.cmd = "status"
    /\ Active(last.pre, last.t0)
    /\ last.report = "LOCKED OUT"
    /\ file = last.pre
    /\ last.writes = 0

\* C26 as stated: whatever the state file holds (JSON that is not an
\* object, a locked_until that is not an ISO-8601 timestamp), isLockedOut
\* does not raise, so a consult ends with allow or deny and the status
\* command with its report.
C26_AnyContentNoRaise ==
    (last.cmd \in {"oracle", "run", "status"}) =>
        /\ last.exit # "raise"
        /\ GateRan => last.ret \in {"allow", "deny"}
        /\ last.cmd = "status" => last.report \in {"LOCKED OUT", "CLEAR"}

----------------------------------------------------------------------------
(* Properties of two racing invocations (SpecRace) *)

AllDone == \A p \in Procs : race.pc[p] = "done"

\* C23 as stated: when both invocations have finished, the file holds
\* exactly the record of the write that happened last, never merged or
\* partial content, and no invocation noticed anything.
C23_LastWriteIsFileContent ==
    (AllDone /\ race.nwrites > 0) =>
        /\ file = Dumped(race.lastw)
        /\ \A p \in Procs : race.ret[p] \in {"allow", "deny"}

\* C23 amended: when both invocations have finished and no write_text of
\* one began or ended between the truncating open and the write of the
\* other, the file holds exactly the record of the write that happened
\* last; when two write_text calls overlapped, the file holds that record
\* or bytes of both writers, which load reads as the empty record.  No
\* invocation detects any of it: each ends with allow or deny, and the
\* record of the earlier writer is lost.
C23_LastWriterWins ==
    (AllDone /\ race.nwrites > 0) =>
        /\ ~race.overlap => file = Dumped(race.lastw)
        /\ race.overlap => (file = Dumped(race.lastw) \/ file = Mixed)
        /\ file = Mixed =>
              load_state(World(file, dir), "none").val = JObject(EmptyDict)
        /\ \A p \in Procs : race.ret[p] \in {"allow", "deny"}

C23_Witness ==
    /\ AllDone
    /\ ~race.overlap
    /\ race.nwrites >= 2
    /\ race.installed # {}
    /\ race.lastkind = "expire"
    /\ file = Dumped(race.lastw)
    /\ ~HasKey(file)

\* C25 as stated: with two invocations interleaved and no unlock, a
\* lockout installed by the FAIL of one is still in the persisted record
\* when both have finished, even though the write_text calls did not
\* overlap.
C25_InstalledLockoutSurvives ==
    (AllDone /\ race.installed # {} /\ ~race.overlap) =>
        /\ HasLockedUntil(file)
        /\ LockedUntilOf(file) \in race.installed

\* C25 amended: with two invocations interleaved and no unlock, a lockout
\* installed by the FAIL of one is in the persisted record when both have
\* finished if that FAIL's write was the last write to the file.  A write
\* of the other invocation landing after it, the lazy-expiry write of a
\* record it read before the lockout was installed, erases the lockout
\* (or, overlapping, leaves unparsable bytes): the record then reads as
\* not locked.
C25_LockoutSurvivesIfWrittenLast ==
    (AllDone /\ race.installed # {}) =>
        /\ race.lastkind = "set" =>
              /\ file = Dumped(race.lastw)
              /\ HasLockedUntil(file)
              /\ LockedUntilOf(file) \in race.installed
        /\ HasKey(file) =>
              /\ HasLockedUntil(file)
              /\ LockedUntilOf(file) \in race.installed
        /\ ~HasKey(file) =>
              /\ race.lastkind = "expire"
              /\ race.ret[race.lastby] = "allow" \/ file = Mixed
              /\ \E p \in Procs \ {race.lastby} :
                    race.ret[p] = "deny" /\ race.path[p] = "FAIL"
              /\ is_locked_out(World(file, dir), clock, "none").val = None

C25_Witness ==
    /\ AllDone
    /\ race.installed # {}
    /\ race.nwrites >= 2
    /\ race.lastkind = "set"
    /\ \E p \in Procs : race.path[p] = "PASS"
    /\ Active(file, clock)

====
